---- MODULE Spec2Model ----
(***************************************************************************)
(* A state-machine model of opentelemetry's span processors                *)
(* (src/opentelemetry/src/sdk/trace/span_processor.rs).                    *)
(*                                                                         *)
(* Spec: the BatchSpanProcessor: the producer facade (on_end, force_flush, *)
(* shutdown), the bounded futures mpsc channel between the facade and the  *)
(* worker, the worker task's message loop with its drain loops,            *)
(* export_with_timeout, the one-shot reply channels, the exporter and the  *)
(* global error sink.                                                      *)
(* SpecDrop: Spec with the drop of the processor, and fairness.            *)
(* SpecLive: Spec with the fairness of the executor's scheduling.          *)
(* SpecSizes: Spec over every size the builder can set, 0 included.        *)
(* SpecBuilder: BatchConfig::default() over the environment, and the       *)
(* calls on a BatchSpanProcessorBuilder up to build().                     *)
(* SpecSimple: the SimpleSpanProcessor with its exporter behind a Mutex.   *)
(*                                                                         *)
(* Granularity.  The worker is an async task: it can be interleaved with   *)
(* the producers only where it awaits (messages.next().await and the       *)
(* select of export and sleep in export_with_timeout), so one worker       *)
(* action is the code between two awaits; the Shutdown arm's               *)
(* exporter.shutdown() and its reply are two steps.  A producer call is    *)
(* atomic up to the point where it blocks (on a mutex, or on its reply).   *)
(*                                                                         *)
(* Spec draws the configuration from the positive sizes of the documented  *)
(* Config (max_queue_size >= 1, max_export_batch_size >= 1); the batch     *)
(* size may exceed the queue size, as with_max_queue_size allows.          *)
(*                                                                         *)
(* Panics.  A force_flush or shutdown made on a thread that is already    *)
(* inside a futures executor panics in block_on with the guard held and    *)
(* its message in the channel; when the caller unwinds, the reply receiver *)
(* is dropped and the lock poisoned.  A panic of the exporter's export or  *)
(* shutdown, like the division by a batch size of 0, unwinds the worker    *)
(* task.                                                                   *)
(***************************************************************************)
EXTENDS Integers, Sequences, FiniteSets, TLC

\* ---------------------------------------------------------------- bounds
NumProducers == 2   \* threads that call the processor
MaxQueueSize == 2   \* config.max_queue_size ranges over 1..MaxQueueSize
MaxBatchSize == 2   \* config.max_export_batch_size ranges over 1..MaxBatchSize
MaxOps       == 3   \* on_end, force_flush and shutdown calls in one behaviour
MaxSize      == 2   \* the builder's size arguments range over 0..MaxSize
MaxMillis    == 1   \* the builder's durations range over 1..MaxMillis milliseconds
MaxBuilderCalls == 2 \* with_* calls on one builder
MaxSimpleOps == 4   \* on_end, force_flush and shutdown calls on one SimpleSpanProcessor

Producers == 1..NumProducers
NoProducer == 0
PoisonedLock == 0 - 1   \* the Mutex is free and poisoned

VARIABLES
    config,            \* BatchConfig: max_queue_size, max_export_batch_size
    chan,              \* messages in the mpsc channel, oldest first
    parked,            \* the Sender is parked (its last send exceeded the buffer)
    rxOpen,            \* the Receiver (owned by the worker task) is alive
    spans,             \* the worker's buffer `spans`
    wpc,               \* worker position: "next", "select", "reply", "exiting", "exited",
                       \* "unwinding", "panicked"
    wmsg,              \* the message whose arm the worker is in (or panicked in)
    results,           \* the arm's `results` vector
    drain,             \* history of the current drain: buffer length at entry, select outcomes
    exportCalls,       \* every batch passed to exporter.export, in call order
    exporterShutdowns, \* number of exporter.shutdown() calls
    sink,              \* global::handle_error reports, counted by kind
    oneshot,           \* per caller: its one-shot reply channel
    mutex,             \* holder of message_sender's Mutex, NoProducer, or PoisonedLock
    pc,                \* per producer: "idle", "on_end_blocked", "on_end_result",
                       \* "flush_wait", "shutdown_wait", "flush_panic",
                       \* "shutdown_panic"
    result,            \* per producer: the error in on_end's `result`, or "none"
    last,              \* the latest return of a force_flush / shutdown call
    hist,              \* history counters of the behaviour
    alive,             \* the BatchSpanProcessor (with its Sender) has not been dropped
    env,               \* the OTEL_BSP_* environment variables
    bconfig,           \* BatchSpanProcessorBuilder.config
    bcalls,            \* number of with_* calls made on the builder
    sMutex,            \* SimpleSpanProcessor: holder of the exporter's Mutex, or NoProducer
    sPoisoned,         \* the exporter's Mutex is poisoned
    sPc,               \* per thread: "idle", "on_end", "exporting", "on_end_result",
                       \* "shutting", "panicked"
    sCall,             \* per thread: the call it is in
    sExportCalls,      \* every batch passed to the simple processor's exporter.export
    sExporterShutdowns,\* number of exporter.shutdown() calls by the simple processor
    sSink,             \* global::handle_error reports of the simple processor, by kind
    sLast,             \* the latest returned call on the simple processor
    sHist              \* history counters of the simple processor

\* the BatchSpanProcessor with its worker, exporter and error sink
bspVars == <<config, chan, parked, rxOpen, spans, wpc, wmsg, results, drain,
             exportCalls, exporterShutdowns, sink, oneshot, mutex, pc, result, last,
             hist>>

\* the builder and the environment it reads
builderVars == <<env, bconfig, bcalls>>

\* the SimpleSpanProcessor with its exporter and error sink
simpleVars == <<sMutex, sPoisoned, sPc, sCall, sExportCalls, sExporterShutdowns,
                sSink, sLast, sHist>>

vars == <<bspVars, alive, builderVars, simpleVars>>

\* ------------------------------------------------------------ messages
\* enum BatchMessage { ExportSpan(SpanData), Flush(Option<Sender>), Shutdown(Sender) }
\* A reply channel is named by the producer that waits on it; NoProducer is None.
ExportSpan(s) == [kind |-> "ExportSpan", span |-> s, reply |-> NoProducer]
Flush(p)      == [kind |-> "Flush", span |-> 0, reply |-> p]
Shutdown(p)   == [kind |-> "Shutdown", span |-> 0, reply |-> p]
NoMessage     == [kind |-> "None", span |-> 0, reply |-> NoProducer]

\* ExportResult values and the errors a call can return
Ok == "Ok"

NoReply == [state |-> "none", value |-> <<>>, entry |-> 0, outcomes |-> <<>>]
NoDrain == [entry |-> 0, outcomes |-> <<>>]
NoPrev  == [op |-> "none", ret |-> "none", replied |-> FALSE, spans |-> 0, exports |-> 0,
            calls |-> 0]
NoCall  == [op |-> "none", ret |-> "none", replied |-> FALSE, reply |-> <<>>,
            entry |-> 0, outcomes |-> <<>>, exports |-> 0, shutdowns |-> 0,
            spans |-> 0, calls |-> 0, afterShutdown |-> FALSE, prev |-> NoPrev]

\* --------------------------------------------------------------- helpers
\* usize::saturating_sub
saturating_sub(a, b) == IF a > b THEN a - b ELSE 0

\* Mutant of SplitIndex: the operands of saturating_sub swapped.
SplitIndexSwapped(buf, cfg) == saturating_sub(cfg.max_export_batch_size, Len(buf))

\* The index at which a drain loop splits the buffer:
\* spans.len().saturating_sub(config.max_export_batch_size)
SplitIndex(buf, cfg) == saturating_sub(Len(buf), cfg.max_export_batch_size)

\* Vec::split_off(at): the tail [at, len) is returned, the buffer keeps [0, at)
split_off_tail(buf, at) == SubSeq(buf, at + 1, Len(buf))

\* Mutant of split_off_rest: the first span of the tail stays in the buffer too.
split_off_rest_keeping(buf, at) ==
    SubSeq(buf, 1, IF at + 1 < Len(buf) THEN at + 1 ELSE at)

split_off_rest(buf, at) == SubSeq(buf, 1, at)

\* Mutant of PushSpan: the capacity test admits one span too many.
PushSpanInclusive(buf, s, cfg) ==
    IF Len(buf) <= cfg.max_queue_size THEN Append(buf, s) ELSE buf

\* Mutant of PushSpan: the capacity test off by one.
PushSpanOffByOne(buf, s, cfg) ==
    IF Len(buf) + 1 < cfg.max_queue_size THEN Append(buf, s) ELSE buf

\* ExportSpan arm: `if spans.len() < config.max_queue_size { spans.push(span) }`
PushSpan(buf, s, cfg) ==
    IF Len(buf) < cfg.max_queue_size THEN Append(buf, s) ELSE buf

\* Mutant of export_with_timeout: the sleep's arm yields no error.
export_ignoring_timeout(outcome) == outcome.res

\* export_with_timeout's match on select(export, timeout): Either::Left is the
\* exporter's own result, Either::Right is the sleep.
export_with_timeout(outcome) ==
    IF outcome.side = "Left" THEN outcome.res ELSE "ExportTimedOut"

\* What the select in export_with_timeout can come to: Left with the
\* exporter's result (also when both futures are ready at the same poll, since
\* select polls the export first), Right when only the sleep is ready, or a
\* panic of the export future when it is polled.
SelectOutcomes ==
    {[side |-> "Left", res |-> "Ok"], [side |-> "Left", res |-> "ExportFailed"],
     [side |-> "Right", res |-> "Ok"], [side |-> "Left", res |-> "Panic"]}

\* Mutant of FirstError: the last error of the list is returned.
RECURSIVE LastError(_)
LastError(list) ==
    IF list = <<>> THEN Ok
    ELSE IF LastError(Tail(list)) # Ok THEN LastError(Tail(list))
    ELSE Head(list)

\* `for result in reply { result?; } Ok(())`
RECURSIVE FirstError(_)
FirstError(list) ==
    IF list = <<>> THEN Ok
    ELSE IF Head(list) # Ok THEN Head(list)
    ELSE FirstError(Tail(list))

\* futures mpsc::channel(config.max_queue_size) with its single Sender:
\* try_send refuses when the sender is parked, fails when the receiver is gone,
\* and otherwise enqueues, parking the sender when the number of queued
\* messages now exceeds the buffer.
SendParks(nQueued, cfg) == nQueued > cfg.max_queue_size

try_send_result == IF parked THEN "Full" ELSE IF ~rxOpen THEN "Disconnected" ELSE Ok

\* Mutant of try_send: a new message overtakes the queued ones.
try_send_first(msg) ==
    IF try_send_result = Ok
    THEN /\ chan' = <<msg>> \o chan
         /\ parked' = SendParks(Len(chan) + 1, config)
    ELSE UNCHANGED <<chan, parked>>

\* Sender::try_send: the message joins the queue at its end.
try_send(msg) ==
    IF try_send_result = Ok
    THEN /\ chan' = Append(chan, msg)
         /\ parked' = SendParks(Len(chan) + 1, config)
    ELSE UNCHANGED <<chan, parked>>

\* Mutant of CancelQueued: the queued messages' reply senders are kept alive.
CancelNone(os) == os

\* Dropping the Receiver closes the channel, wakes the parked sender and drops
\* every queued message; a dropped reply Sender cancels its Receiver (if the
\* Receiver is still there).
CancelQueued(os) ==
    [p \in Producers |->
        IF os[p].state = "pending" /\ \E i \in 1..Len(chan) : chan[i].reply = p
        THEN [os[p] EXCEPT !.state = "canceled"]
        ELSE os[p]]

Bump(h, f) == [h EXCEPT ![f] = @ + 1]

\* the positions of the channel's queued ExportSpan messages
QueuedSpans == {i \in 1..Len(chan) : chan[i].kind = "ExportSpan"}

\* on_end: `if let Err(err) = result { global::handle_error(err) }`
OnEndReport(sk, r) == IF r = Ok THEN sk ELSE Bump(sk, r)

\* Mutant of FreshResults: one results vector is shared by all arms.
CarriedResults(old) == old

\* `let mut results = Vec::with_capacity(..)`: results is a local of the arm,
\* every arm starts from an empty vector and the vector ends with the arm.
FreshResults(old) == <<>>

\* Mutant of TickReport: only an exporter's own error is reported, not a timeout.
TickReportExportErrorsOnly(sk, r) == IF r = "ExportFailed" THEN Bump(sk, "Export") ELSE sk

\* Flush(None) arm: `if let Err(err) = result { global::handle_error(err) }`
TickReport(sk, r) == IF r = Ok THEN sk ELSE Bump(sk, "Export")

\* Mutant of PushResult: only failures are collected.
PushResultErrorsOnly(res, r) == IF r = Ok THEN res ELSE Append(res, r)

\* Flush(Some) and Shutdown arms: results.push(export_with_timeout(..).await)
PushResult(res, r) == Append(res, r)

\* --------------------------------------------------------- configuration
OTEL_BSP_SCHEDULE_DELAY_DEFAULT == 5000
OTEL_BSP_MAX_QUEUE_SIZE_DEFAULT == 2048
OTEL_BSP_MAX_EXPORT_BATCH_SIZE_DEFAULT == 512
OTEL_BSP_EXPORT_TIMEOUT_DEFAULT == 30000

\* Option::None of a parsed number
None == -1

\* An environment variable is unset, or set to a text; a text is the sequence
\* of its characters.
Unset == [set |-> FALSE, text |-> <<>>]
SetTo(text) == [set |-> TRUE, text |-> text]

Digits == <<"0", "1", "2", "3", "4", "5", "6", "7", "8", "9">>
DigitValue(c) ==
    IF \E i \in 1..Len(Digits) : Digits[i] = c
    THEN (CHOOSE i \in 1..Len(Digits) : Digits[i] = c) - 1
    ELSE None

\* A 64-bit unsigned number (u64, and usize of a 64-bit target) is held as
\* three limbs <<high, middle, low>> of eight decimal digits each, so that the
\* overflow checks of the parser are computed exactly.
LimbBase == 10000 * 10000
Limbs(n) == <<0, n \div LimbBase, n % LimbBase>>

\* u64::MAX = usize::MAX = 18446744073709551615
u64_MAX == <<1844, 67440737, 9551615>>

\* the limbs after the carries have been passed upwards
Carried(n) ==
    LET m == n[2] + n[3] \div LimbBase
    IN <<n[1] + m \div LimbBase, m % LimbBase, n[3] % LimbBase>>

Exceeds(n, max) ==
    \/ n[1] > max[1]
    \/ n[1] = max[1] /\ n[2] > max[2]
    \/ n[1] = max[1] /\ n[2] = max[2] /\ n[3] > max[3]

\* the None of checked_mul / checked_add, and the Err of the parser
Overflowed == <<>>

Checked(n) == IF Exceeds(Carried(n), u64_MAX) THEN Overflowed ELSE Carried(n)

\* result.checked_mul(radix), result.checked_add(digit)
checked_mul(n, k) == Checked(<<n[1] * k, n[2] * k, n[3] * k>>)
checked_add(n, d) == Checked(<<n[1], n[2], n[3] + d>>)

\* the number the limbs stand for (the model checker's integers hold it when
\* it is below 2^31)
LimbValue(n) == (n[1] * LimbBase + n[2]) * LimbBase + n[3]

\* the digit loop of from_str_radix(text, 10): an invalid digit and an
\* overflow of checked_mul or checked_add both end it with an error
RECURSIVE ParseDigits(_, _)
ParseDigits(text, acc) ==
    IF text = <<>> THEN acc
    ELSE IF DigitValue(Head(text)) = None THEN Overflowed
    ELSE LET product == checked_mul(acc, 10)
         IN IF product = Overflowed THEN Overflowed
            ELSE LET sum == checked_add(product, DigitValue(Head(text)))
                 IN IF sum = Overflowed THEN Overflowed
                    ELSE ParseDigits(Tail(text), sum)

\* usize::from_str / u64::from_str(..).ok(): an optional "+" and then one or
\* more decimal digits whose number fits 64 bits; anything else is None.
from_str(text) ==
    LET digits == IF text # <<>> /\ Head(text) = "+" THEN Tail(text) ELSE text
        parsed == ParseDigits(digits, Limbs(0))
    IN IF digits = <<>> \/ parsed = Overflowed THEN None ELSE LimbValue(parsed)

\* env::var(A).ok().or_else(|| env::var(B).ok())
or_else(a, b) == IF a.set THEN a ELSE b

\* `if let Some(n) = <var>.and_then(|s| from_str(&s).ok()) { field = n }`
Override(field, var) ==
    IF var.set /\ from_str(var.text) # None THEN from_str(var.text) ELSE field

\* the clamp at the end of BatchConfig::default
ClampToQueueSize(batch, queue) == IF batch > queue THEN queue ELSE batch

\* impl Default for BatchConfig (durations in milliseconds)
BatchConfig_default(e) ==
    LET queue == Override(OTEL_BSP_MAX_QUEUE_SIZE_DEFAULT, e.OTEL_BSP_MAX_QUEUE_SIZE)
        batch == Override(OTEL_BSP_MAX_EXPORT_BATCH_SIZE_DEFAULT,
                          e.OTEL_BSP_MAX_EXPORT_BATCH_SIZE)
    IN [max_queue_size |-> queue,
        scheduled_delay |->
            Override(OTEL_BSP_SCHEDULE_DELAY_DEFAULT,
                     or_else(e.OTEL_BSP_SCHEDULE_DELAY, e.OTEL_BSP_SCHEDULE_DELAY_MILLIS)),
        max_export_batch_size |-> ClampToQueueSize(batch, queue),
        max_export_timeout |->
            Override(OTEL_BSP_EXPORT_TIMEOUT_DEFAULT,
                     or_else(e.OTEL_BSP_EXPORT_TIMEOUT, e.OTEL_BSP_EXPORT_TIMEOUT_MILLIS))]

\* BatchSpanProcessorBuilder's setters, as functions of the builder's config
with_max_queue_size(cfg, size) == [cfg EXCEPT !.max_queue_size = size]
with_scheduled_delay(cfg, delay) == [cfg EXCEPT !.scheduled_delay = delay]
with_max_timeout(cfg, timeout) == [cfg EXCEPT !.max_export_timeout = timeout]
with_max_export_batch_size(cfg, size) ==
    [cfg EXCEPT !.max_export_batch_size =
                    IF size > cfg.max_queue_size THEN cfg.max_queue_size ELSE size]

\* the texts the environment variables are drawn from
TooBig == <<"1", "8", "4", "4", "6", "7", "4", "4", "0", "7", "3", "7", "0", "9", "5", "5",
            "1", "6", "1", "6">>   \* 2^64, one more than usize::MAX
EnvSizeTexts == {<<"2">>, <<"+", "1">>, <<"x", "1">>, <<"1", "0">>, TooBig}
EnvMillisTexts == {<<"3">>, <<"x">>}
EnvSizes == {Unset} \cup {SetTo(t) : t \in EnvSizeTexts}
EnvMillis == {Unset} \cup {SetTo(t) : t \in EnvMillisTexts}
Environments ==
    [OTEL_BSP_MAX_QUEUE_SIZE : EnvSizes,
     OTEL_BSP_MAX_EXPORT_BATCH_SIZE : EnvSizes,
     OTEL_BSP_SCHEDULE_DELAY : EnvMillis,
     OTEL_BSP_SCHEDULE_DELAY_MILLIS : EnvMillis,
     OTEL_BSP_EXPORT_TIMEOUT : EnvMillis,
     OTEL_BSP_EXPORT_TIMEOUT_MILLIS : EnvMillis]
NoEnvironment ==
    [OTEL_BSP_MAX_QUEUE_SIZE |-> Unset,
     OTEL_BSP_MAX_EXPORT_BATCH_SIZE |-> Unset,
     OTEL_BSP_SCHEDULE_DELAY |-> Unset,
     OTEL_BSP_SCHEDULE_DELAY_MILLIS |-> Unset,
     OTEL_BSP_EXPORT_TIMEOUT |-> Unset,
     OTEL_BSP_EXPORT_TIMEOUT_MILLIS |-> Unset]

\* no BatchSpanProcessor has been built yet
NoConfig ==
    [max_queue_size |-> None, scheduled_delay |-> None,
     max_export_batch_size |-> None, max_export_timeout |-> None]

\* ------------------------------------------------------------------ Init
\* BatchSpanProcessor::new: an empty channel, the worker spawned with an empty
\* buffer and waiting for its first message.
NewProcessor ==
    /\ chan = <<>>
    /\ parked = FALSE
    /\ rxOpen = TRUE
    /\ spans = <<>>
    /\ wpc = "next"
    /\ wmsg = NoMessage
    /\ results = <<>>
    /\ drain = NoDrain
    /\ exportCalls = <<>>
    /\ exporterShutdowns = 0
    /\ sink = [Full |-> 0, Disconnected |-> 0, Poisoned |-> 0, Export |-> 0,
               ReplySend |-> 0]
    /\ oneshot = [p \in Producers |-> NoReply]
    /\ mutex = NoProducer
    /\ pc = [p \in Producers |-> "idle"]
    /\ result = [p \in Producers |-> "none"]
    /\ last = NoCall
    /\ hist = [spans |-> 0, flushes |-> 0, shutdowns |-> 0,
               received |-> 0, dropped |-> 0, lost |-> 0, replyMsgs |-> 0, replySends |-> 0,
               accepted |-> {}, discarded |-> {}, exportsAtExporterShutdown |-> 0,
               tickFailures |-> 0,
               shutdownReturned |-> FALSE, exportsAtShutdown |-> 0,
               exShutdownsAtShutdown |-> 0]

\* A returned (or not yet made) call on the SimpleSpanProcessor: the batches
\* it passed to exporter.export, the errors it reported, what it returned.
NoSimpleCall ==
    [by |-> NoProducer, op |-> "none", span |-> 0, exported |-> <<>>, export |-> "none",
     reports |-> 0, poisoned |-> FALSE, ret |-> "none"]

\* SimpleSpanProcessor::new: Mutex::new(exporter)
NewSimpleProcessor ==
    /\ sMutex = NoProducer
    /\ sPoisoned = FALSE
    /\ sPc = [t \in Producers |-> "idle"]
    /\ sCall = [t \in Producers |-> NoSimpleCall]
    /\ sExportCalls = <<>>
    /\ sExporterShutdowns = 0
    /\ sSink = [Poisoned |-> 0, Export |-> 0]
    /\ sLast = NoSimpleCall
    /\ sHist = [calls |-> 0, spans |-> 0, shutdownCalls |-> 0, exportsAtShutdown |-> 0]

\* a builder that read an empty environment and was consumed by build()
BuilderDone ==
    /\ env = NoEnvironment
    /\ bconfig = BatchConfig_default(env)
    /\ bcalls = 0

Init ==
    /\ config \in [max_queue_size : 1..MaxQueueSize,
                   max_export_batch_size : 1..MaxBatchSize]
    /\ NewProcessor
    /\ alive = TRUE
    /\ BuilderDone
    /\ NewSimpleProcessor

\* ------------------------------------------------------------- producers
\* Calls made so far (a blocked on_end counts when it sends).
Ops == hist.spans + hist.flushes + hist.shutdowns

\* shutdown takes `&mut self`: while it runs no other call on the processor can
\* be in progress, and it cannot start while another call is.
NoShutdownInProgress == \A q \in Producers : pc[q] \notin {"shutdown_wait", "shutdown_panic"}
AllIdle == \A q \in Producers : pc[q] = "idle"

\* What a returning force_flush / shutdown leaves behind for the caller, with
\* the number of export calls made by the moment of the return, the numbers
\* of on_end and shutdown calls made before the call, the number of
\* force_flush and shutdown calls made up to the call (itself included), and
\* a summary of the call that returned before it.
CallReturn(p, op, ret, rep) ==
    [op |-> op, ret |-> ret, replied |-> rep.state = "sent", reply |-> rep.value,
     entry |-> rep.entry, outcomes |-> rep.outcomes,
     exports |-> Len(exportCalls),
     shutdowns |-> IF op = "shutdown" /\ rep.state # "none"
                   THEN hist.shutdowns - 1 ELSE hist.shutdowns,
     spans |-> hist.spans,
     calls |-> hist.flushes + hist.shutdowns + (IF rep.state = "none" THEN 1 ELSE 0),
     afterShutdown |-> hist.shutdownReturned,
     prev |-> [op |-> last.op, ret |-> last.ret, replied |-> last.replied,
               spans |-> last.spans, exports |-> last.exports, calls |-> last.calls]]

\* no caller holds message_sender's lock: lock() returns without waiting
LockNotHeld == mutex \in {NoProducer, PoisonedLock}

\* message_sender.lock() when no caller holds the lock: Err when an earlier
\* holder panicked (the lock is poisoned for ever), else the guard.
lock_result == IF mutex = PoisonedLock THEN "Poisoned" ELSE Ok

\* on_end up to the end of its and_then closure, once lock() has returned:
\* with the guard, try_send(ExportSpan(span)); the guard is dropped there.
\* With Ok the call returns; with an error it is left with its `result`,
\* which it reports afterwards.
OnEndSend(p) ==
    /\ IF lock_result = Ok
       THEN /\ try_send(ExportSpan(hist.spans + 1))
            /\ result' = [result EXCEPT ![p] = IF try_send_result = Ok THEN "none"
                                                ELSE try_send_result]
            /\ pc' = [pc EXCEPT ![p] = IF try_send_result = Ok THEN "idle"
                                        ELSE "on_end_result"]
            /\ hist' = [Bump(hist, "spans") EXCEPT
                           !.accepted = IF try_send_result = Ok
                                        THEN @ \cup {hist.spans + 1} ELSE @]
       ELSE /\ result' = [result EXCEPT ![p] = lock_result]
            /\ pc' = [pc EXCEPT ![p] = "on_end_result"]
            /\ hist' = Bump(hist, "spans")
            /\ UNCHANGED <<chan, parked>>
    /\ UNCHANGED <<config, rxOpen, spans, wpc, wmsg, results, drain, exportCalls,
                   exporterShutdowns, sink, oneshot, mutex, last>>

\* on_end when message_sender.lock() is not held by another caller.
OnEnd(p) ==
    /\ pc[p] = "idle"
    /\ NoShutdownInProgress
    /\ Ops < MaxOps
    /\ LockNotHeld
    /\ OnEndSend(p)

\* on_end when message_sender.lock() is held by a force_flush: the call blocks.
OnEndBlocks(p) ==
    /\ pc[p] = "idle"
    /\ NoShutdownInProgress
    /\ Ops < MaxOps
    /\ ~LockNotHeld
    /\ pc' = [pc EXCEPT ![p] = "on_end_blocked"]
    /\ UNCHANGED <<config, chan, parked, rxOpen, spans, wpc, wmsg, results, drain,
                   exportCalls, exporterShutdowns, sink, oneshot, mutex, result, last, hist>>

\* the blocked on_end's lock() returns.
OnEndResumes(p) ==
    /\ pc[p] = "on_end_blocked"
    /\ LockNotHeld
    /\ OnEndSend(p)

\* on_end after the guard is gone: `if let Err(err) = result
\* { global::handle_error(err) }`, and the call returns.
OnEndReturns(p) ==
    /\ pc[p] = "on_end_result"
    /\ sink' = OnEndReport(sink, result[p])
    /\ result' = [result EXCEPT ![p] = "none"]
    /\ pc' = [pc EXCEPT ![p] = "idle"]
    /\ UNCHANGED <<config, chan, parked, rxOpen, spans, wpc, wmsg, results, drain,
                   exportCalls, exporterShutdowns, oneshot, mutex, last, hist>>

\* Mutant of SendControl: the result of try_send is not looked at.
SendControlUnchecked(p, op, msg, waiting, panicking, inExecutor) ==
    /\ try_send(msg)
    /\ pc' = [pc EXCEPT ![p] = waiting]
    /\ mutex' = p
    /\ oneshot' = [oneshot EXCEPT ![p] = [NoReply EXCEPT !.state = "pending"]]
    /\ UNCHANGED last

\* force_flush / shutdown up to the point where the caller blocks on its reply:
\* lock()? (a poisoned lock returns its error), oneshot::channel(),
\* try_send(..)? (an error returns at once, the guard is dropped), then
\* block_on(res_receiver): the caller waits holding the lock, unless its thread
\* is already inside a futures executor: block_on then panics, with the message
\* in the channel and with res_receiver and the guard still alive until the
\* caller unwinds (PanicUnwinds).
SendControl(p, op, msg, waiting, panicking, inExecutor) ==
    IF lock_result # Ok
    THEN /\ last' = CallReturn(p, op, lock_result, NoReply)
         /\ UNCHANGED <<chan, parked, pc, mutex, oneshot>>
    ELSE /\ try_send(msg)
         /\ IF try_send_result # Ok
            THEN /\ last' = CallReturn(p, op, try_send_result, NoReply)
                 /\ UNCHANGED <<pc, mutex, oneshot>>
            ELSE /\ pc' = [pc EXCEPT ![p] = IF inExecutor THEN panicking ELSE waiting]
                 /\ mutex' = p
                 /\ oneshot' = [oneshot EXCEPT ![p] = [NoReply EXCEPT !.state = "pending"]]
                 /\ UNCHANGED last

\* the call returns an error before it gets to block_on
ReturnsAtOnce == lock_result # Ok \/ try_send_result # Ok

ForceFlush(p) ==
    /\ pc[p] = "idle"
    /\ NoShutdownInProgress
    /\ LockNotHeld
    /\ Ops < MaxOps
    /\ \E inExecutor \in BOOLEAN :
          SendControl(p, "force_flush", Flush(p), "flush_wait", "flush_panic", inExecutor)
    /\ hist' = Bump(hist, "flushes")
    /\ UNCHANGED <<config, rxOpen, spans, wpc, wmsg, results, drain, exportCalls,
                   exporterShutdowns, sink, result>>

ShutdownCall(p) ==
    /\ AllIdle
    /\ Ops < MaxOps
    /\ \E inExecutor \in BOOLEAN :
          SendControl(p, "shutdown", Shutdown(p), "shutdown_wait", "shutdown_panic",
                      inExecutor)
    /\ hist' = [Bump(hist, "shutdowns") EXCEPT
                   !.shutdownReturned = @ \/ ReturnsAtOnce,
                   !.exportsAtShutdown =
                       IF ~hist.shutdownReturned /\ ReturnsAtOnce
                       THEN Len(exportCalls) ELSE @,
                   !.exShutdownsAtShutdown =
                       IF ~hist.shutdownReturned /\ ReturnsAtOnce
                       THEN exporterShutdowns ELSE @]
    /\ UNCHANGED <<config, rxOpen, spans, wpc, wmsg, results, drain, exportCalls,
                   exporterShutdowns, sink, result>>

\* The caller whose block_on panicked unwinds: res_receiver is dropped (a reply
\* already sent is dropped with it; a later send fails) and then the guard,
\* which poisons the lock.  The call ends without a result.
PanicUnwinds(p) ==
    /\ pc[p] \in {"flush_panic", "shutdown_panic"}
    /\ oneshot' = [oneshot EXCEPT ![p] = IF @.state = "pending"
                                         THEN [NoReply EXCEPT !.state = "dropped"]
                                         ELSE NoReply]
    /\ mutex' = PoisonedLock
    /\ pc' = [pc EXCEPT ![p] = "idle"]
    /\ UNCHANGED <<config, chan, parked, rxOpen, spans, wpc, wmsg, results, drain,
                   exportCalls, exporterShutdowns, sink, result, last, hist>>

\* Mutant of ReplyResult: a dropped reply sender is taken for an empty reply.
ReplyResultOfValue(rep) == FirstError(rep.value)

\* block_on(res_receiver)? then `for result in .. { result?; }`: a dropped
\* reply sender is Canceled, otherwise the first error of the list.
ReplyResult(rep) ==
    IF rep.state = "canceled" THEN "Canceled" ELSE FirstError(rep.value)

ForceFlushReturn(p) ==
    /\ pc[p] = "flush_wait"
    /\ oneshot[p].state \in {"sent", "canceled"}
    /\ last' = CallReturn(p, "force_flush", ReplyResult(oneshot[p]), oneshot[p])
    /\ oneshot' = [oneshot EXCEPT ![p] = NoReply]
    /\ mutex' = NoProducer
    /\ pc' = [pc EXCEPT ![p] = "idle"]
    /\ UNCHANGED <<config, chan, parked, rxOpen, spans, wpc, wmsg, results, drain,
                   exportCalls, exporterShutdowns, sink, result, hist>>

ShutdownReturn(p) ==
    /\ pc[p] = "shutdown_wait"
    /\ oneshot[p].state \in {"sent", "canceled"}
    /\ last' = CallReturn(p, "shutdown", ReplyResult(oneshot[p]), oneshot[p])
    /\ oneshot' = [oneshot EXCEPT ![p] = NoReply]
    /\ mutex' = NoProducer
    /\ pc' = [pc EXCEPT ![p] = "idle"]
    /\ hist' = [hist EXCEPT
                   !.shutdownReturned = TRUE,
                   !.exportsAtShutdown =
                       IF hist.shutdownReturned THEN @ ELSE Len(exportCalls),
                   !.exShutdownsAtShutdown =
                       IF hist.shutdownReturned THEN @ ELSE exporterShutdowns]
    /\ UNCHANGED <<config, chan, parked, rxOpen, spans, wpc, wmsg, results, drain,
                   exportCalls, exporterShutdowns, sink, result>>

\* ---------------------------------------------------------------- worker
\* The reply a finished arm sends: the results, with the drain's history.
Reply(res, dr) ==
    [state |-> "sent", value |-> res, entry |-> dr.entry, outcomes |-> dr.outcomes]

\* `let send_result = ch.send(results)`: the reply reaches the caller unless
\* the caller's receiver is gone (its block_on panicked and the caller has
\* unwound) ...
SendReply(os, p, rep) ==
    IF os[p].state = "dropped" THEN os ELSE [os EXCEPT ![p] = rep]

\* ... `if send_result.is_err() { global::handle_error(..) }`
ReplyReport(sk, os, p) ==
    IF os[p].state = "dropped" THEN Bump(sk, "ReplySend") ELSE sk

\* The unwinding of the worker task drops the arm's reply sender `ch`, which
\* cancels a receiver that is still waiting.
DropReplySender(os, msg) ==
    IF msg.reply # NoProducer /\ os[msg.reply].state = "pending"
    THEN [os EXCEPT ![msg.reply].state = "canceled"]
    ELSE os

\* exporter.shutdown() returns, or panics.
ShutdownOutcomes == {"Done", "Panic"}

\* Mutant of ShutdownArmCalls: the arm does not call exporter.shutdown().
ShutdownArmSkips(n) == n

\* The Shutdown arm calls exporter.shutdown() after its drain loop, once.
ShutdownArmCalls(n) == n + 1

\* A drain loop from its `while !spans.is_empty()` test to the next await:
\* either the next sub-batch is split off and handed to exporter.export (the
\* worker then awaits the select in export_with_timeout), or the arm ends:
\* Flush(Some(ch)) sends the results, Flush(None) sends nothing, Shutdown calls
\* exporter.shutdown() (and goes on in WorkerShutdownReply, unless the call
\* panics: the task then unwinds, dropping `ch` first).
DrainLoop(msg, buf, res, dr, h, sk) ==
    IF buf # <<>>
    THEN /\ spans' = split_off_rest(buf, SplitIndex(buf, config))
         /\ exportCalls' = Append(exportCalls, split_off_tail(buf, SplitIndex(buf, config)))
         /\ wpc' = "select"
         /\ wmsg' = msg
         /\ results' = res
         /\ drain' = dr
         /\ hist' = h
         /\ sink' = sk
         /\ UNCHANGED <<exporterShutdowns, oneshot>>
    ELSE /\ spans' = buf
         /\ UNCHANGED exportCalls
         /\ IF msg.kind = "Shutdown"
            THEN /\ exporterShutdowns' = ShutdownArmCalls(exporterShutdowns)
                 /\ wmsg' = msg
                 /\ results' = res
                 /\ drain' = dr
                 /\ hist' = [h EXCEPT !.exportsAtExporterShutdown = Len(exportCalls)]
                 /\ sink' = sk
                 /\ \E o \in ShutdownOutcomes :
                        IF o = "Panic"
                        THEN /\ wpc' = "unwinding"
                             /\ oneshot' = DropReplySender(oneshot, msg)
                        ELSE /\ wpc' = "reply"
                             /\ UNCHANGED oneshot
            ELSE /\ wpc' = "next"
                 /\ wmsg' = NoMessage
                 /\ results' = FreshResults(res)
                 /\ drain' = NoDrain
                 /\ UNCHANGED exporterShutdowns
                 /\ IF msg.reply = NoProducer
                    THEN /\ hist' = h
                         /\ sink' = sk
                         /\ UNCHANGED oneshot
                    ELSE /\ oneshot' = SendReply(oneshot, msg.reply, Reply(res, dr))
                         /\ sink' = ReplyReport(sk, oneshot, msg.reply)
                         /\ hist' = Bump(h, "replySends")

\* A panic inside the worker task before an arm's drain loop or in it (the
\* division by a max_export_batch_size of 0 in
\* `spans.len() / config.max_export_batch_size`, or a panic of the exporter's
\* export): the unwinding first drops the arm's reply sender `ch` ...
WorkerUnwinds(msg, h) ==
    /\ wpc' = "unwinding"
    /\ wmsg' = msg
    /\ oneshot' = DropReplySender(oneshot, msg)
    /\ hist' = h
    /\ UNCHANGED <<spans, results, drain, exportCalls, exporterShutdowns, sink>>

\* ... and then the task's other locals: the buffer, the exporter (without a
\* call of exporter.shutdown()) and the Receiver with every queued message.
WorkerUnwound ==
    /\ wpc = "unwinding"
    /\ wpc' = "panicked"
    /\ rxOpen' = FALSE
    /\ chan' = <<>>
    /\ parked' = FALSE
    /\ oneshot' = CancelQueued(oneshot)
    /\ spans' = <<>>
    /\ results' = <<>>
    /\ hist' = [hist EXCEPT !.lost = @ + Cardinality(QueuedSpans) + Len(spans)]
    /\ UNCHANGED <<config, wmsg, drain, exportCalls, exporterShutdowns, sink, mutex, pc,
                   result, last>>

\* messages.next() yields the oldest message of the channel (which unparks the
\* sender), and the worker runs its arm up to the next await.
WorkerNextMessage ==
    /\ wpc = "next"
    /\ chan # <<>>
    /\ chan' = Tail(chan)
    /\ parked' = FALSE
    /\ LET msg == Head(chan)
           h == Bump(hist, "received")
       IN IF msg.kind = "ExportSpan"
          THEN /\ spans' = PushSpan(spans, msg.span, config)
               /\ hist' = IF PushSpan(spans, msg.span, config) = spans
                          THEN [Bump(h, "dropped") EXCEPT !.discarded = @ \cup {msg.span}]
                          ELSE h
               /\ UNCHANGED <<wpc, wmsg, results, drain, exportCalls,
                              exporterShutdowns, sink, oneshot>>
          ELSE IF config.max_export_batch_size = 0
          THEN WorkerUnwinds(msg, Bump(h, "replyMsgs"))
          ELSE DrainLoop(msg, spans, FreshResults(results),
                         [NoDrain EXCEPT !.entry = Len(spans)],
                         Bump(h, "replyMsgs"), sink)
    /\ UNCHANGED <<config, rxOpen, mutex, pc, result, last>>

\* messages.next() yields a tick of the interval stream, mapped to Flush(None).
\* The ticker never ends: a tick is always possible while the worker waits
\* (one that finds the buffer empty changes nothing).
WorkerTick ==
    /\ wpc = "next"
    /\ DrainLoop(Flush(NoProducer), spans, FreshResults(results),
                 [NoDrain EXCEPT !.entry = Len(spans)], hist, sink)
    /\ UNCHANGED <<config, chan, parked, rxOpen, mutex, pc, result, last>>

\* The select of export_with_timeout resolves: the result is pushed (or, in the
\* Flush(None) arm, an error is reported to the sink) and the loop goes on; or
\* the export panics when it is polled, which unwinds the worker task.
WorkerSelect ==
    /\ wpc = "select"
    /\ \E o \in SelectOutcomes :
          IF o.res = "Panic"
          THEN WorkerUnwinds(wmsg, hist)
          ELSE LET r == export_with_timeout(o)
                   dr == [drain EXCEPT !.outcomes = Append(@, o)]
               IN IF wmsg.reply = NoProducer
                  THEN DrainLoop(wmsg, spans, results, dr,
                                 IF o.side = "Right" \/ o.res # Ok
                                 THEN Bump(hist, "tickFailures") ELSE hist,
                                 TickReport(sink, r))
                  ELSE DrainLoop(wmsg, spans, PushResult(results, r), dr, hist, sink)
    /\ UNCHANGED <<config, chan, parked, rxOpen, mutex, pc, result, last>>

\* The Shutdown arm after exporter.shutdown() has returned: ch.send(results),
\* the report of a failed send, and `break`.
WorkerShutdownReply ==
    /\ wpc = "reply"
    /\ oneshot' = SendReply(oneshot, wmsg.reply, Reply(results, drain))
    /\ sink' = ReplyReport(sink, oneshot, wmsg.reply)
    /\ hist' = Bump(hist, "replySends")
    /\ wmsg' = NoMessage
    /\ results' = <<>>
    /\ drain' = NoDrain
    /\ wpc' = "exiting"
    /\ UNCHANGED <<config, chan, parked, rxOpen, spans, exportCalls, exporterShutdowns,
                   mutex, pc, result, last>>

\* After `break` the task ends and drops the Receiver.
WorkerExit ==
    /\ wpc = "exiting"
    /\ wpc' = "exited"
    /\ rxOpen' = FALSE
    /\ chan' = <<>>
    /\ parked' = FALSE
    /\ oneshot' = CancelQueued(oneshot)
    /\ hist' = [hist EXCEPT !.lost = @ + Cardinality(QueuedSpans)]
    /\ UNCHANGED <<config, spans, wmsg, results, drain, exportCalls,
                   exporterShutdowns, sink, mutex, pc, result, last>>

\* ------------------------------------------------------------------ Next
\* what a step of the BatchSpanProcessor leaves alone
Others == <<alive, builderVars, simpleVars>>

Next ==
    \/ (\E p \in Producers : OnEnd(p)) /\ UNCHANGED Others
    \/ (\E p \in Producers : OnEndBlocks(p)) /\ UNCHANGED Others
    \/ (\E p \in Producers : OnEndResumes(p)) /\ UNCHANGED Others
    \/ (\E p \in Producers : OnEndReturns(p)) /\ UNCHANGED Others
    \/ (\E p \in Producers : ForceFlush(p)) /\ UNCHANGED Others
    \/ (\E p \in Producers : ForceFlushReturn(p)) /\ UNCHANGED Others
    \/ (\E p \in Producers : ShutdownCall(p)) /\ UNCHANGED Others
    \/ (\E p \in Producers : ShutdownReturn(p)) /\ UNCHANGED Others
    \/ (\E p \in Producers : PanicUnwinds(p)) /\ UNCHANGED Others
    \/ WorkerNextMessage /\ UNCHANGED Others
    \/ WorkerTick /\ UNCHANGED Others
    \/ WorkerSelect /\ UNCHANGED Others
    \/ WorkerShutdownReply /\ UNCHANGED Others
    \/ WorkerExit /\ UNCHANGED Others
    \/ WorkerUnwound /\ UNCHANGED Others

Spec == Init /\ [][Next]_vars

\* ---------------------------------------------------------------- builder
\* BatchSpanProcessor::builder(..): the builder starts from BatchConfig::default(),
\* which reads the environment.
InitBuilder ==
    /\ env \in Environments
    /\ bconfig = BatchConfig_default(env)
    /\ bcalls = 0
    /\ config = NoConfig
    /\ NewProcessor
    /\ alive = FALSE
    /\ NewSimpleProcessor

\* one with_* call: the builder is moved into the call and returned with the
\* changed config
BuilderCall(cfg) ==
    /\ config = NoConfig
    /\ bcalls < MaxBuilderCalls
    /\ bconfig' = cfg
    /\ bcalls' = bcalls + 1
    /\ UNCHANGED <<env, bspVars, alive, simpleVars>>

WithMaxQueueSize == \E size \in 0..MaxSize : BuilderCall(with_max_queue_size(bconfig, size))
WithScheduledDelay ==
    \E delay \in 1..MaxMillis : BuilderCall(with_scheduled_delay(bconfig, delay))
WithMaxTimeout ==
    \E timeout \in 1..MaxMillis : BuilderCall(with_max_timeout(bconfig, timeout))
WithMaxExportBatchSize ==
    \E size \in 0..MaxSize : BuilderCall(with_max_export_batch_size(bconfig, size))

\* build(): BatchSpanProcessor::new(.., self.config), the config as it is
Build ==
    /\ config = NoConfig
    /\ config' = bconfig
    /\ alive' = TRUE
    /\ UNCHANGED <<chan, parked, rxOpen, spans, wpc, wmsg, results, drain,
                   exportCalls, exporterShutdowns, sink, oneshot, mutex, pc, result,
                   last, hist,
                   builderVars, simpleVars>>

NextBuilder ==
    \/ WithMaxQueueSize
    \/ WithScheduledDelay
    \/ WithMaxTimeout
    \/ WithMaxExportBatchSize
    \/ Build

SpecBuilder == InitBuilder /\ [][NextBuilder]_vars

\* ------------------------------------------------- SimpleSpanProcessor
\* Mutant of lock_free: lock() does not wait for the holder.
lock_never_held(holder) == TRUE

\* Mutex::lock returns once no thread holds the mutex.
lock_free(holder) == holder = NoProducer

\* shutdown takes `&mut self`: no other call is in progress when it runs
\* (a thread that panicked inside a call has left it).
SimpleExclusive(t) ==
    /\ sPc[t] = "idle"
    /\ \A u \in Producers \ {t} : sPc[u] \in {"idle", "panicked"}
SimpleNoShutdownInProgress == \A u \in Producers : sPc[u] # "shutting"

\* what block_on(exporter.export(vec![span])) can do: return Ok, return an
\* error, or panic (the exporter panics, or block_on does, on a thread that is
\* already inside a futures executor)
SimpleExportOutcomes == {Ok, "ExportFailed", "Panic"}

\* what exporter.shutdown() can do: return, or panic
SimpleShutdownOutcomes == {"Done", "Panic"}

\* Mutant of SimpleReported: on_end reports nothing.
SimpleReportedNever(r) == 0

\* on_end: `if let Err(err) = result { global::handle_error(err) }`, the number
\* of reports for the result r of the lock-and-export chain
SimpleReported(r) == IF r = Ok THEN 0 ELSE 1

SimpleSink(sk, kind, r) == IF SimpleReported(r) = 1 THEN Bump(sk, kind) ELSE sk

SimpleReturn(t, call) ==
    /\ sLast' = call
    /\ sCall' = [sCall EXCEPT ![t] = NoSimpleCall]
    /\ sPc' = [sPc EXCEPT ![t] = "idle"]

\* a panic unwinds through the call with the guard held: the guard is dropped
\* while panicking, which poisons the mutex, and the call never returns
SimplePanics(t) ==
    /\ sMutex' = NoProducer
    /\ sPoisoned' = TRUE
    /\ sPc' = [sPc EXCEPT ![t] = "panicked"]
    /\ sCall' = [sCall EXCEPT ![t] = NoSimpleCall]
    /\ UNCHANGED <<sSink, sLast>>

\* on_end is called: the thread goes for self.exporter.lock()
SimpleOnEndCall(t) ==
    /\ sPc[t] = "idle"
    /\ SimpleNoShutdownInProgress
    /\ sHist.calls < MaxSimpleOps
    /\ sPc' = [sPc EXCEPT ![t] = "on_end"]
    /\ sCall' = [sCall EXCEPT ![t] =
                    [NoSimpleCall EXCEPT !.by = t, !.op = "on_end", !.span = sHist.spans + 1]]
    /\ sHist' = [sHist EXCEPT !.calls = @ + 1, !.spans = @ + 1]
    /\ UNCHANGED <<sMutex, sPoisoned, sExportCalls, sExporterShutdowns, sSink, sLast>>

\* lock() returns: on a poisoned mutex the error is mapped and and_then is
\* skipped, so `result` is the error; otherwise exporter.export(vec![span]) is
\* called with the guard held.
SimpleOnEndLock(t) ==
    /\ sPc[t] = "on_end"
    /\ lock_free(sMutex)
    /\ IF sPoisoned
       THEN /\ sCall' = [sCall EXCEPT ![t].poisoned = TRUE]
            /\ sPc' = [sPc EXCEPT ![t] = "on_end_result"]
            /\ UNCHANGED <<sMutex, sExportCalls>>
       ELSE /\ sMutex' = t
            /\ sExportCalls' = Append(sExportCalls, <<sCall[t].span>>)
            /\ sCall' = [sCall EXCEPT ![t].exported = Append(@, <<sCall[t].span>>)]
            /\ sPc' = [sPc EXCEPT ![t] = "exporting"]
    /\ UNCHANGED <<sPoisoned, sExporterShutdowns, sSink, sLast, sHist>>

\* block_on(exporter.export(..)) ends: its value is `result` and the guard is
\* dropped with the end of the closure; a panic unwinds through on_end and
\* poisons the mutex.
SimpleExportDone(t) ==
    /\ sPc[t] = "exporting"
    /\ \E r \in SimpleExportOutcomes :
          IF r = "Panic"
          THEN SimplePanics(t)
          ELSE /\ sMutex' = NoProducer
               /\ sCall' = [sCall EXCEPT ![t].export = r]
               /\ sPc' = [sPc EXCEPT ![t] = "on_end_result"]
               /\ UNCHANGED <<sPoisoned, sSink, sLast>>
    /\ UNCHANGED <<sExportCalls, sExporterShutdowns, sHist>>

\* the value of on_end's `result`: the mapped error of a poisoned lock, else
\* what the export returned
SimpleResult(call) == IF call.poisoned THEN "Poisoned" ELSE call.export

\* `if let Err(err) = result { global::handle_error(err) }`, with no lock
\* held, and on_end returns
SimpleOnEndReturns(t) ==
    /\ sPc[t] = "on_end_result"
    /\ sSink' = SimpleSink(sSink, IF sCall[t].poisoned THEN "Poisoned" ELSE "Export",
                           SimpleResult(sCall[t]))
    /\ SimpleReturn(t, [sCall[t] EXCEPT !.reports = @ + SimpleReported(SimpleResult(sCall[t])),
                                        !.ret = "returned"])
    /\ UNCHANGED <<sMutex, sPoisoned, sExportCalls, sExporterShutdowns, sHist>>

\* force_flush: Ok(()), nothing else
SimpleForceFlush(t) ==
    /\ sPc[t] = "idle"
    /\ SimpleNoShutdownInProgress
    /\ sHist.calls < MaxSimpleOps
    /\ sLast' = [NoSimpleCall EXCEPT !.by = t, !.op = "force_flush", !.ret = Ok]
    /\ sHist' = [sHist EXCEPT !.calls = @ + 1]
    /\ UNCHANGED <<sMutex, sPoisoned, sPc, sCall, sExportCalls, sExporterShutdowns, sSink>>

\* shutdown: `if let Ok(mut exporter) = self.exporter.lock()` then
\* exporter.shutdown() is called, else the poisoned error is returned.
SimpleShutdownCall(t) ==
    /\ SimpleExclusive(t)
    /\ lock_free(sMutex)
    /\ sHist.calls < MaxSimpleOps
    /\ sHist' = [sHist EXCEPT !.calls = @ + 1, !.shutdownCalls = @ + 1,
                              !.exportsAtShutdown =
                                  IF ~sPoisoned /\ sExporterShutdowns = 0
                                  THEN Len(sExportCalls) ELSE @]
    /\ IF sPoisoned
       THEN /\ sLast' = [NoSimpleCall EXCEPT !.by = t, !.op = "shutdown",
                                             !.poisoned = TRUE, !.ret = "Poisoned"]
            /\ UNCHANGED <<sMutex, sPc, sCall, sExporterShutdowns>>
       ELSE /\ sMutex' = t
            /\ sExporterShutdowns' = sExporterShutdowns + 1
            /\ sPc' = [sPc EXCEPT ![t] = "shutting"]
            /\ sCall' = [sCall EXCEPT ![t] =
                            [NoSimpleCall EXCEPT !.by = t, !.op = "shutdown"]]
            /\ UNCHANGED sLast
    /\ UNCHANGED <<sPoisoned, sExportCalls, sSink>>

\* exporter.shutdown() returns: the guard is dropped and shutdown returns
\* Ok(()); or it panics with the guard held.
SimpleShutdownDone(t) ==
    /\ sPc[t] = "shutting"
    /\ \E o \in SimpleShutdownOutcomes :
          IF o = "Panic"
          THEN SimplePanics(t)
          ELSE /\ sMutex' = NoProducer
               /\ SimpleReturn(t, [sCall[t] EXCEPT !.ret = Ok])
               /\ UNCHANGED <<sPoisoned, sSink>>
    /\ UNCHANGED <<sExportCalls, sExporterShutdowns, sHist>>

\* a SimpleSpanProcessor alone: no BatchSpanProcessor has been built
InitSimple ==
    /\ NewSimpleProcessor
    /\ config = NoConfig
    /\ NewProcessor
    /\ alive = FALSE
    /\ BuilderDone

SimpleOthers == <<bspVars, alive, builderVars>>

NextSimple ==
    \/ (\E t \in Producers : SimpleOnEndCall(t)) /\ UNCHANGED SimpleOthers
    \/ (\E t \in Producers : SimpleOnEndLock(t)) /\ UNCHANGED SimpleOthers
    \/ (\E t \in Producers : SimpleExportDone(t)) /\ UNCHANGED SimpleOthers
    \/ (\E t \in Producers : SimpleOnEndReturns(t)) /\ UNCHANGED SimpleOthers
    \/ (\E t \in Producers : SimpleForceFlush(t)) /\ UNCHANGED SimpleOthers
    \/ (\E t \in Producers : SimpleShutdownCall(t)) /\ UNCHANGED SimpleOthers
    \/ (\E t \in Producers : SimpleShutdownDone(t)) /\ UNCHANGED SimpleOthers

SpecSimple == InitSimple /\ [][NextSimple]_vars

\* ------------------------------------------------- dropping the processor
\* The BatchSpanProcessor is dropped (no call on it is in progress): its
\* Sender goes with it.  The messages already queued stay receivable; after
\* them message_receiver is exhausted, but stream::select(message_receiver,
\* ticker) ends only when both of its streams have ended, and the ticker is an
\* interval stream that never ends: messages.next() never yields None, so the
\* worker has no step that leaves its loop here.
DropProcessor ==
    /\ alive
    /\ AllIdle
    /\ LockNotHeld
    /\ alive' = FALSE
    /\ UNCHANGED <<bspVars, builderVars, simpleVars>>

\* a call on the processor needs the processor
Facade(A) == alive /\ A /\ UNCHANGED Others

\* the worker task's steps
Worker ==
    /\ \/ WorkerNextMessage
       \/ WorkerTick
       \/ WorkerSelect
       \/ WorkerShutdownReply
       \/ WorkerExit
       \/ WorkerUnwound
    /\ UNCHANGED Others

NextDrop ==
    \/ Facade(\E p \in Producers : OnEnd(p))
    \/ Facade(\E p \in Producers : OnEndBlocks(p))
    \/ Facade(\E p \in Producers : OnEndResumes(p))
    \/ Facade(\E p \in Producers : OnEndReturns(p))
    \/ Facade(\E p \in Producers : ForceFlush(p))
    \/ Facade(\E p \in Producers : ForceFlushReturn(p))
    \/ Facade(\E p \in Producers : ShutdownCall(p))
    \/ Facade(\E p \in Producers : ShutdownReturn(p))
    \/ Facade(\E p \in Producers : PanicUnwinds(p))
    \/ WorkerNextMessage /\ UNCHANGED Others
    \/ WorkerTick /\ UNCHANGED Others
    \/ WorkerSelect /\ UNCHANGED Others
    \/ WorkerShutdownReply /\ UNCHANGED Others
    \/ WorkerExit /\ UNCHANGED Others
    \/ WorkerUnwound /\ UNCHANGED Others
    \/ DropProcessor

\* The spawned worker task is polled whenever it can make a step (a message
\* or a tick is there, a select has resolved), a caller whose reply has
\* arrived returns, and a caller whose block_on panicked unwinds.
SpecDrop ==
    /\ Init
    /\ [][NextDrop]_vars
    /\ WF_vars(Worker)
    /\ \A p \in Producers : WF_vars(Facade(ForceFlushReturn(p)))
    /\ \A p \in Producers : WF_vars(Facade(ShutdownReturn(p)))
    /\ \A p \in Producers : WF_vars(Facade(PanicUnwinds(p)))

\* -------------------------------------------------------------- liveness
\* Spec with the scheduling the code relies on: the executor polls the worker
\* task whenever it can make a step (stream::select polls the channel and the
\* ticker in turn, and the sleep of export_with_timeout completes, so the
\* select of an export always resolves), and block_on(res_receiver) returns
\* once the reply or the cancellation is there, as a caller whose block_on
\* panicked unwinds (at most one call waits or unwinds at a time: it holds the
\* sender's lock).  Nothing is assumed of the producers or of the exporter.
SpecLive ==
    /\ Init
    /\ [][Next]_vars
    /\ WF_vars(Worker)
    /\ WF_vars(\E p \in Producers :
                   (ForceFlushReturn(p) \/ ShutdownReturn(p) \/ PanicUnwinds(p))
                       /\ UNCHANGED Others)

\* ------------------------------------------------------------ every size
\* The sizes a built configuration can have: those of the builder after
\* with_max_queue_size(q1), with_max_export_batch_size(b), with_max_queue_size(q2)
\* on the default configuration, for arguments in 0..MaxSize.
BuiltSizes ==
    {[max_queue_size |-> c.max_queue_size,
      max_export_batch_size |-> c.max_export_batch_size] :
        c \in {with_max_queue_size(
                  with_max_export_batch_size(
                      with_max_queue_size(BatchConfig_default(NoEnvironment), q1), b), q2) :
                  q1 \in 0..MaxSize, b \in 0..MaxSize, q2 \in 0..MaxSize}}

InitSizes ==
    /\ config \in BuiltSizes
    /\ NewProcessor
    /\ alive = TRUE
    /\ BuilderDone
    /\ NewSimpleProcessor

\* The steps of Spec; a drain that has already made more export attempts than
\* the buffer held spans at its entry is not followed any further.
NextSizes ==
    \/ (\E p \in Producers : OnEnd(p)) /\ UNCHANGED Others
    \/ (\E p \in Producers : OnEndBlocks(p)) /\ UNCHANGED Others
    \/ (\E p \in Producers : OnEndResumes(p)) /\ UNCHANGED Others
    \/ (\E p \in Producers : OnEndReturns(p)) /\ UNCHANGED Others
    \/ (\E p \in Producers : ForceFlush(p)) /\ UNCHANGED Others
    \/ (\E p \in Producers : ForceFlushReturn(p)) /\ UNCHANGED Others
    \/ (\E p \in Producers : ShutdownCall(p)) /\ UNCHANGED Others
    \/ (\E p \in Producers : ShutdownReturn(p)) /\ UNCHANGED Others
    \/ (\E p \in Producers : PanicUnwinds(p)) /\ UNCHANGED Others
    \/ WorkerNextMessage /\ UNCHANGED Others
    \/ WorkerTick /\ UNCHANGED Others
    \/ Len(drain.outcomes) <= drain.entry /\ WorkerSelect /\ UNCHANGED Others
    \/ WorkerShutdownReply /\ UNCHANGED Others
    \/ WorkerExit /\ UNCHANGED Others
    \/ WorkerUnwound /\ UNCHANGED Others

SpecSizes == InitSizes /\ [][NextSizes]_vars

\* ---------------------------------------------------------------- claims
RECURSIVE Flatten(_)
Flatten(batches) ==
    IF batches = <<>> THEN <<>> ELSE Head(batches) \o Flatten(Tail(batches))

Occurrences(s, seq) == Cardinality({i \in 1..Len(seq) : seq[i] = s})

\* the spans handed to the exporter by its first n export calls
ExportedBy(n) == Flatten(SubSeq(exportCalls, 1, n))

Ceil(n, b) == (n + b - 1) \div b

\* C1 (as stated): when a force_flush returns after n <= max_queue_size on_end
\* calls in all, with no shutdown call before it, every one of the n spans has
\* been passed to exporter.export exactly once, and no other span has.
C1_FlushExportsEachSpanOnce ==
    (/\ last.op = "force_flush"
     /\ last.shutdowns = 0
     /\ last.spans <= config.max_queue_size)
    => /\ \A s \in 1..last.spans : Occurrences(s, ExportedBy(last.exports)) = 1
       /\ \A i \in 1..Len(ExportedBy(last.exports)) :
              ExportedBy(last.exports)[i] \in 1..last.spans

\* C1 (amended): when a force_flush returns with the worker's reply (not with
\* Poisoned, Full, Disconnected or Canceled) after n <= max_queue_size on_end
\* calls in all, with no shutdown call before it, every one of the n spans has
\* been passed to exporter.export exactly once, and no other span has.
C1_RepliedFlushExportsEachSpanOnce ==
    (/\ last.op = "force_flush"
     /\ last.replied
     /\ last.shutdowns = 0
     /\ last.spans <= config.max_queue_size)
    => /\ \A s \in 1..last.spans : Occurrences(s, ExportedBy(last.exports)) = 1
       /\ \A i \in 1..Len(ExportedBy(last.exports)) :
              ExportedBy(last.exports)[i] \in 1..last.spans

\* A force_flush returned success after max_queue_size (at least 2) on_end
\* calls whose spans went out in more than one sub-batch.
C1_Witness ==
    /\ last.op = "force_flush"
    /\ last.shutdowns = 0
    /\ last.ret = Ok
    /\ last.spans = config.max_queue_size
    /\ last.spans >= 2
    /\ last.exports >= 2

\* C2: every batch passed to exporter.export, by any arm of the worker, has at
\* most max_export_batch_size spans.
C2_BatchWithinBatchSize ==
    \A i \in 1..Len(exportCalls) :
        Len(exportCalls[i]) <= config.max_export_batch_size

\* The worker awaits the export of a full sub-batch split off a buffer that
\* held more than max_export_batch_size spans.
C2_Witness ==
    /\ wpc = "select"
    /\ spans # <<>>
    /\ Len(exportCalls[Len(exportCalls)]) = config.max_export_batch_size

\* C3: in every execution in which shutdown() has been called (and has
\* returned), exporter.shutdown() has been invoked exactly once, whatever the
\* channel held when shutdown was called; it is never invoked twice.
C3_ShutdownCallsExporterShutdownOnce ==
    /\ exporterShutdowns <= 1
    /\ hist.shutdownReturned => exporterShutdowns = 1

\* C4: once a shutdown() call has returned, the exporter gets no further
\* export call and no further shutdown call.
C4_NoExporterCallAfterShutdown ==
    hist.shutdownReturned =>
        /\ Len(exportCalls) = hist.exportsAtShutdown
        /\ exporterShutdowns = hist.exShutdownsAtShutdown

\* The result of the i-th sub-batch of a drain is ExportTimedOut when the sleep
\* won the select, and the exporter's own result when the export won.
SubBatchResultsMatch(res, outcomes) ==
    /\ Len(res) = Len(outcomes)
    /\ \A i \in 1..Len(res) :
          /\ outcomes[i].side = "Right" => res[i] = "ExportTimedOut"
          /\ outcomes[i].side = "Left" => res[i] = outcomes[i].res

TimedOut(outcomes) == {i \in 1..Len(outcomes) : outcomes[i].side = "Right"}
Failed(outcomes) ==
    {i \in 1..Len(outcomes) : outcomes[i].side = "Left" /\ outcomes[i].res # Ok}

FirstFailing(outcomes) ==
    CHOOSE i \in TimedOut(outcomes) \cup Failed(outcomes) :
        \A j \in TimedOut(outcomes) \cup Failed(outcomes) : i <= j

\* C5 as stated: a sub-batch whose sleep completes first has the result
\* ExportTimedOut and the force_flush that triggered the drain returns that
\* error; a sub-batch whose export completes first has the exporter's result.
C5_TimeoutIsReturnedByForceFlush ==
    (last.op = "force_flush" /\ last.replied) =>
        /\ SubBatchResultsMatch(last.reply, last.outcomes)
        /\ TimedOut(last.outcomes) # {} => last.ret = "ExportTimedOut"

\* C5 amended: the sub-batch results are as stated (also while the drain is in
\* progress), and a force_flush whose drain had a timed-out sub-batch returns
\* an error: ExportTimedOut unless an earlier sub-batch of the same drain
\* failed in the exporter, whose error is returned instead.
C5_TimeoutFailsForceFlush ==
    /\ (wpc = "select" /\ wmsg.reply # NoProducer) =>
           SubBatchResultsMatch(results, drain.outcomes)
    /\ (last.op = "force_flush" /\ last.replied) =>
           /\ SubBatchResultsMatch(last.reply, last.outcomes)
           /\ TimedOut(last.outcomes) # {} =>
                 /\ last.ret # Ok
                 /\ last.ret = "ExportTimedOut"
                        <=> FirstFailing(last.outcomes) \in TimedOut(last.outcomes)

\* A force_flush returned ExportTimedOut from a drain of two sub-batches of
\* which the second timed out and the first was exported in time.
C5_Witness ==
    /\ last.op = "force_flush"
    /\ last.replied
    /\ Len(last.outcomes) = 2
    /\ last.outcomes[1] = [side |-> "Left", res |-> Ok]
    /\ last.outcomes[2].side = "Right"
    /\ last.ret = "ExportTimedOut"

\* C6: once more than max_queue_size on_end calls have been made, the
\* exporter has received at most max_queue_size of their spans and the sink has
\* at least (calls - max_queue_size) overflow reports.
C6_BurstBoundedByQueueSize ==
    hist.spans > config.max_queue_size =>
        /\ Len(ExportedBy(Len(exportCalls))) <= config.max_queue_size
        /\ sink.Full >= hist.spans - config.max_queue_size

\* the worker is in the arm of a Flush(Some(reply)) or Shutdown(reply)
InReplyArm == wpc \in {"select", "reply"} /\ wmsg.reply # NoProducer

\* the worker task panicked in the arm of a Flush(Some(reply)) or
\* Shutdown(reply), before the send on the reply channel
DiedInReplyArm == wpc \in {"unwinding", "panicked"} /\ wmsg.reply # NoProducer

\* C7 (as stated): every Flush(Some(reply)) and Shutdown(reply) the worker has
\* received is answered by exactly one send on its reply channel (none yet for
\* the arm the worker is in), and the list sent has
\* ceil(n / max_export_batch_size) results, n being the buffer's length when
\* the arm was entered.
C7_OneReplyPerControlMessage ==
    /\ hist.replySends = hist.replyMsgs - (IF InReplyArm THEN 1 ELSE 0)
    /\ \A p \in Producers :
           oneshot[p].state = "sent" =>
               Len(oneshot[p].value) = Ceil(oneshot[p].entry, config.max_export_batch_size)
    /\ last.replied =>
           Len(last.reply) = Ceil(last.entry, config.max_export_batch_size)

\* C7 (amended): every Flush(Some(reply)) and Shutdown(reply) the worker has
\* received is answered by at most one send on its reply channel: by exactly
\* one, unless the worker is still in the arm or a panic of the exporter's
\* export or shutdown ended the worker task in the arm, in which case the
\* reply channel is dropped without a send and the caller gets Canceled. A
\* list sent has
\* ceil(n / max_export_batch_size) results, n being the buffer's length when
\* the arm was entered; a send whose receiver is gone fails and is reported
\* to the sink.
C7_OneReplyUnlessWorkerPanics ==
    /\ hist.replySends =
           hist.replyMsgs - (IF InReplyArm \/ DiedInReplyArm THEN 1 ELSE 0)
    /\ sink.ReplySend <= hist.replySends
    /\ \A p \in Producers :
           oneshot[p].state = "sent" =>
               Len(oneshot[p].value) = Ceil(oneshot[p].entry, config.max_export_batch_size)
    /\ last.replied =>
           Len(last.reply) = Ceil(last.entry, config.max_export_batch_size)

\* The worker has received one Flush(Some(reply)) and the caller has received
\* the one reply sent, with two results for a buffer of two spans.
C7_Witness ==
    /\ hist.replyMsgs = 1
    /\ hist.replySends = 1
    /\ last.replied
    /\ last.op = "force_flush"
    /\ last.entry = 2
    /\ Len(last.reply) = 2

\* C8: an on_end call never waits: no producer is ever blocked inside on_end.
C8_OnEndNeverBlocks ==
    \A p \in Producers : pc[p] # "on_end_blocked"

\* The sub-batch results of a drain, in export order.
OutcomeResults(outcomes) ==
    [i \in 1..Len(outcomes) |->
        IF outcomes[i].side = "Right" THEN "ExportTimedOut" ELSE outcomes[i].res]

\* C9: a force_flush that got its reply returns success when every sub-batch of
\* the drain succeeded (also when there was none), and otherwise the error of
\* the first failing sub-batch in export order.
C9_ForceFlushReturnsFirstError ==
    (last.op = "force_flush" /\ last.replied) =>
        IF TimedOut(last.outcomes) \cup Failed(last.outcomes) = {}
        THEN last.ret = Ok
        ELSE last.ret = OutcomeResults(last.outcomes)[FirstFailing(last.outcomes)]

\* A force_flush returned from a drain whose two sub-batches failed differently.
C9_Witness ==
    /\ last.op = "force_flush"
    /\ last.replied
    /\ Len(last.reply) = 2
    /\ last.reply[1] # Ok
    /\ last.reply[2] # Ok
    /\ last.reply[1] # last.reply[2]

\* C10: a shutdown() call made after a shutdown() call has returned returns an
\* error and makes the worker run no drain and no exporter.shutdown() for it.
C10_SecondShutdownFails ==
    (last.op = "shutdown" /\ last.afterShutdown) =>
        /\ last.ret # Ok
        /\ ~last.replied

\* C11: the configuration that build() hands to the worker has
\* max_export_batch_size <= max_queue_size, for every environment and every
\* sequence of builder calls.
C11_BuiltBatchWithinQueue ==
    config # NoConfig => config.max_export_batch_size <= config.max_queue_size

\* the spans (numbered in the order of the on_end calls) that on_end calls
\* made before the latest returned call put into the channel
EnqueuedBeforeLast == {s \in hist.accepted : s <= last.spans}

\* C12 (as stated): when a force_flush returns, every span that an earlier
\* on_end call put into the channel has been passed to exporter.export.
C12_FlushExportsEveryEnqueuedSpan ==
    last.op = "force_flush"
    => \A s \in EnqueuedBeforeLast : Occurrences(s, ExportedBy(last.exports)) >= 1

\* C12 (amended): when a force_flush returns with the worker's reply, every
\* span that an earlier on_end call put into the channel has been passed to
\* exporter.export, or was discarded by the worker on a full buffer.
C12_RepliedFlushExportsEveryBufferedSpan ==
    (last.op = "force_flush" /\ last.replied)
    => \A s \in EnqueuedBeforeLast :
           \/ Occurrences(s, ExportedBy(last.exports)) >= 1
           \/ s \in hist.discarded

\* A replied force_flush returned after two on_end calls by different
\* producers had put their spans into the channel, and both were exported.
C12_Witness ==
    /\ last.op = "force_flush"
    /\ last.replied
    /\ Cardinality(EnqueuedBeforeLast) >= 2
    /\ hist.discarded = {}
    /\ last.exports >= 1

\* C13: in the Shutdown arm every export of the drain precedes
\* exporter.shutdown() (the buffer is empty and every sub-batch has its result
\* when exporter.shutdown() has run, and no export call follows it),
\* exporter.shutdown() precedes the reply (a shutdown caller's reply is only
\* sent once the exporter is shut down), and a shutdown() that got its reply
\* returns the first sub-batch error in export order, or success.
C13_ShutdownArmOrder ==
    /\ exporterShutdowns >= 1 =>
           /\ wpc \in {"reply", "exiting", "exited", "unwinding", "panicked"}
           /\ spans = <<>>
           /\ Len(exportCalls) = hist.exportsAtExporterShutdown
    /\ wpc = "reply" =>
           /\ wmsg.kind = "Shutdown"
           /\ oneshot[wmsg.reply].state \in {"pending", "dropped"}
           /\ Len(drain.outcomes) = Ceil(drain.entry, config.max_export_batch_size)
           /\ results = OutcomeResults(drain.outcomes)
    /\ \A p \in Producers :
           (pc[p] = "shutdown_wait" /\ oneshot[p].state = "sent") =>
               /\ exporterShutdowns = 1
               /\ oneshot[p].value = OutcomeResults(oneshot[p].outcomes)
    /\ (last.op = "shutdown" /\ last.replied) =>
           /\ exporterShutdowns = 1
           /\ last.exports = hist.exportsAtExporterShutdown
           /\ IF TimedOut(last.outcomes) \cup Failed(last.outcomes) = {}
              THEN last.ret = Ok
              ELSE last.ret = OutcomeResults(last.outcomes)[FirstFailing(last.outcomes)]

\* A shutdown() returned the error of the first of two sub-batches, one timed
\* out and one failed, of a drain that ended with exporter.shutdown().
C13_Witness ==
    /\ last.op = "shutdown"
    /\ last.replied
    /\ Len(last.outcomes) = 2
    /\ TimedOut(last.outcomes) # {}
    /\ Failed(last.outcomes) # {}
    /\ last.ret # Ok
    /\ exporterShutdowns = 1

\* C14 (as stated): an on_end(span) that has returned made exactly one
\* exporter.export call, with the batch [span], and when the mutex was poisoned
\* or the export failed it reported one error to the sink.
C14_OnEndExportsOnce ==
    sLast.op = "on_end" =>
        /\ sLast.exported = << <<sLast.span>> >>
        /\ (sLast.poisoned \/ sLast.export = "ExportFailed") => sLast.reports = 1

\* C14 (amended): an on_end(span) that found the mutex not poisoned made
\* exactly one exporter.export call, with the batch [span], and reported one
\* error when the export failed and none when it succeeded; one that found the
\* mutex poisoned made no export call and reported one error.
C14_OnEndExportsOnceUnlessPoisoned ==
    sLast.op = "on_end" =>
        /\ ~sLast.poisoned =>
               /\ sLast.exported = << <<sLast.span>> >>
               /\ sLast.export \in {Ok, "ExportFailed"}
               /\ sLast.reports = IF sLast.export = Ok THEN 0 ELSE 1
        /\ sLast.poisoned =>
               /\ sLast.exported = <<>>
               /\ sLast.export = "none"
               /\ sLast.reports = 1

\* An on_end found the mutex poisoned by an earlier panic of the exporter, and
\* another on_end's export had failed before.
C14_Witness ==
    /\ sLast.op = "on_end"
    /\ sLast.poisoned
    /\ sSink.Export >= 1
    /\ sSink.Poisoned >= 1
    /\ Len(sExportCalls) >= 2

\* the threads inside an operation of the simple processor's exporter
SimpleInExporter == {t \in Producers : sPc[t] \in {"exporting", "shutting"}}

\* C15: at most one operation of the SimpleSpanProcessor's exporter (export or
\* shutdown) is in progress, and the thread in it holds the mutex.
C15_OneExporterOperation ==
    /\ Cardinality(SimpleInExporter) <= 1
    /\ \A t \in SimpleInExporter : sMutex = t

\* A thread is inside exporter.export while another, whose export failed, has
\* released the guard and not yet reported, the mutex having been held by a
\* shutdown before.
C15_Witness ==
    \E t, u \in Producers :
        /\ sPc[t] = "exporting"
        /\ sPc[u] = "on_end_result"
        /\ sCall[u].export = "ExportFailed"
        /\ sExporterShutdowns >= 1

\* C16: the SimpleSpanProcessor calls exporter.shutdown() exactly once however
\* often shutdown() is called, and makes no exporter.export call after it.
C16_SimpleExporterShutdownOnce ==
    /\ sExporterShutdowns <= 1
    /\ sLast.op = "shutdown" => sExporterShutdowns = 1
    /\ sExporterShutdowns >= 1 => Len(sExportCalls) = sHist.exportsAtShutdown

\* a force_flush or shutdown call is made in this step
ControlCallStep ==
    \/ hist'.flushes = hist.flushes + 1
    \/ hist'.shutdowns = hist.shutdowns + 1

\* C17: a force_flush or shutdown call that tries to send its message (it took
\* the lock) while the channel is full (it holds max_queue_size + 1 messages)
\* returns the error Full, without a reply: no message is enqueued, the caller
\* does not wait, and the worker's buffer, its position and the exporter's
\* calls are unchanged.
C17_FullControlSendIsRefused ==
    [][(Len(chan) > config.max_queue_size /\ lock_result = Ok /\ ControlCallStep) =>
           /\ last'.ret = "Full"
           /\ last'.op \in {"force_flush", "shutdown"}
           /\ ~last'.replied
           /\ chan' = chan
           /\ parked' = parked
           /\ pc' = pc
           /\ mutex' = mutex
           /\ oneshot' = oneshot
           /\ spans' = spans
           /\ wpc' = wpc
           /\ wmsg' = wmsg
           /\ results' = results
           /\ exportCalls' = exportCalls
           /\ exporterShutdowns' = exporterShutdowns
           /\ sink' = sink]_vars

\* A shutdown call has returned Full with the channel at its capacity of
\* max_queue_size + 1 messages.
C17_Witness ==
    /\ last.op = "shutdown"
    /\ last.ret = "Full"
    /\ ~last.replied
    /\ parked
    /\ Len(chan) = config.max_queue_size + 1

\* the worker takes an ExportSpan message off the channel in this step
ExportSpanStep ==
    /\ wpc = "next"
    /\ chan # <<>>
    /\ Head(chan).kind = "ExportSpan"
    /\ chan' = Tail(chan)

SinkReports(sk) == sk.Full + sk.Disconnected + sk.Export

\* C18: on ExportSpan(s) the worker appends s to its buffer and changes
\* nothing else when the buffer holds fewer than max_queue_size spans;
\* otherwise it leaves the buffer as it is and reports one error to the sink.
C18_ExportSpanArm ==
    [][ExportSpanStep =>
           IF Len(spans) < config.max_queue_size
           THEN /\ spans' = Append(spans, Head(chan).span)
                /\ UNCHANGED <<wpc, wmsg, results, drain, exportCalls, exporterShutdowns,
                               sink, oneshot, mutex, pc, last>>
           ELSE /\ spans' = spans
                /\ SinkReports(sink') = SinkReports(sink) + 1]_vars

\* C19: the worker's buffer never holds more than max_queue_size spans.
C19_BufferWithinQueueSize == Len(spans) <= config.max_queue_size

\* The buffer is full and the worker has discarded a span for that.
C19_Witness ==
    /\ Len(spans) = config.max_queue_size
    /\ hist.dropped >= 1
    /\ config.max_queue_size >= 2

\* C20: once the processor (every sender) has been dropped with no shutdown
\* call made, the worker task eventually exits.
C20_WorkerExitsWhenSendersDropped ==
    (~alive /\ hist.shutdowns = 0) ~> (wpc = "exited")

\* the worker is in the drain of a timer flush, awaiting an export
TickArm == wpc = "select" /\ wmsg.kind = "Flush" /\ wmsg.reply = NoProducer

\* C21: the drain of a Flush(None) goes on, whatever the sub-batches' results,
\* until the buffer is empty: while spans are left the next sub-batch is split
\* off and exported, and when none is left the worker is back at
\* messages.next(); it collects no results and sends no reply, and the sink
\* gets one report for each failed or timed-out sub-batch of a timer flush.
C21_TimerFlushDrainsAndReports ==
    [][/\ sink'.Export - sink.Export = hist'.tickFailures - hist.tickFailures
       /\ (TickArm /\ drain' # drain) =>
              /\ oneshot' = oneshot
              /\ hist'.replySends = hist.replySends
              /\ results' = <<>>
              /\ exporterShutdowns' = exporterShutdowns
              /\ IF spans # <<>>
                 THEN /\ wpc' = "select"
                      /\ wmsg' = wmsg
                      /\ Len(spans') < Len(spans)
                      /\ Len(exportCalls') = Len(exportCalls) + 1
                      /\ spans' \o exportCalls'[Len(exportCalls')] = spans
                 ELSE /\ wpc' = "next"
                      /\ spans' = <<>>
                      /\ wmsg' = NoMessage
                      /\ exportCalls' = exportCalls
                      /\ Len(drain.outcomes) + 1 =
                             Ceil(drain.entry, config.max_export_batch_size)]_vars

\* A timer flush goes on after its first sub-batch timed out: the timeout has
\* been reported and the worker awaits the export of the next sub-batch.
C21_Witness ==
    /\ TickArm
    /\ Len(drain.outcomes) = 1
    /\ drain.outcomes[1].side = "Right"
    /\ sink.Export = 1
    /\ hist.replySends = 0

\* no span was put into the channel between the latest returned call and the
\* one before it
NoSpanSincePrev == \A s \in hist.accepted : s <= last.prev.spans \/ s > last.spans

\* the latest returned call is the first force_flush or shutdown call made
\* after the returned call before it
FollowsPrev == last.calls = last.prev.calls + 1

\* the call whose return is recorded last is the next call made after a
\* force_flush that returned an error from its reply, with no span put into
\* the channel in between
FollowsFailedFlush ==
    /\ last.op \in {"force_flush", "shutdown"}
    /\ last.prev.op = "force_flush"
    /\ last.prev.replied
    /\ last.prev.ret # Ok
    /\ FollowsPrev
    /\ NoSpanSincePrev

\* a reply holds one result for each sub-batch of its own drain
ReplyIsOfOwnDrain ==
    last.replied =>
        /\ last.reply = OutcomeResults(last.outcomes)
        /\ Len(last.outcomes) = Ceil(last.entry, config.max_export_batch_size)

\* C22: a reply carries the results of its own drain only: it has one result
\* for each sub-batch of that drain, and a force_flush or shutdown that
\* returns as the next call after a force_flush which returned an error from
\* its reply, with no span put into the channel in between, has got its reply
\* and returns success from an empty result list, and no batch has been
\* exported in between.
C22_FollowingCallReturnsSuccess ==
    /\ ReplyIsOfOwnDrain
    /\ FollowsFailedFlush =>
           /\ last.replied
           /\ last.reply = <<>>
           /\ last.ret = Ok
           /\ last.exports = last.prev.exports

\* C22 (amended): a reply carries the results of its own drain only: it has
\* one result for each sub-batch of that drain, and a force_flush or shutdown
\* that returns as the next call after a force_flush which returned an error
\* from its reply, with no span put into the channel in between, returns
\* success from an empty result list, unless it is a shutdown whose
\* exporter.shutdown() panicked: that one gets no reply and returns Canceled.
\* In both cases no batch has been exported in between.
C22_ReplyCarriesOwnDrainOnly ==
    /\ ReplyIsOfOwnDrain
    /\ FollowsFailedFlush =>
           /\ \/ /\ last.replied
                 /\ last.reply = <<>>
                 /\ last.ret = Ok
              \/ /\ last.op = "shutdown"
                 /\ ~last.replied
                 /\ last.ret = "Canceled"
                 /\ exporterShutdowns >= 1
                 /\ wpc \in {"unwinding", "panicked"}
           /\ last.exports = last.prev.exports

\* A shutdown returned success right after a force_flush that had returned
\* ExportTimedOut, with no on_end call in between.
C22_Witness ==
    /\ last.op = "shutdown"
    /\ last.ret = Ok
    /\ FollowsPrev
    /\ last.prev.op = "force_flush"
    /\ last.prev.ret = "ExportTimedOut"
    /\ last.spans = last.prev.spans
    /\ last.exports >= 1

\* a force_flush or shutdown call puts its message into the channel in this
\* step
ControlAccepted == ControlCallStep /\ Len(chan') = Len(chan) + 1

\* the call made in this step comes to wait for its reply
CallWaits ==
    \E p \in Producers : pc[p] = "idle" /\ pc'[p] \in {"flush_wait", "shutdown_wait"}

\* a force_flush or shutdown call waits for its reply
Waiters == {p \in Producers : pc[p] \in {"flush_wait", "shutdown_wait"}}

\* At most one call waits at a time (the waiter holds the sender's lock until
\* it returns), so that every waiting call returns exactly when a state with a
\* waiter is always followed by a state with none.
WaitersReturn ==
    /\ [](Cardinality(Waiters) <= 1)
    /\ (Waiters # {}) ~> (Waiters = {})

\* the call made in this step runs into the panic of block_on
CallPanics ==
    /\ \E p \in Producers : pc[p] = "idle" /\ pc'[p] \in {"flush_panic", "shutdown_panic"}
    /\ last' = last

\* a call whose block_on panicked ends without a result and leaves the lock
\* poisoned
PanickedCallEnds ==
    \A p \in Producers :
        (pc[p] \in {"flush_panic", "shutdown_panic"} /\ pc'[p] # pc[p]) =>
            /\ pc'[p] = "idle"
            /\ last' = last
            /\ mutex' = PoisonedLock

\* C23 (as stated): every force_flush or shutdown call whose message was
\* accepted by the channel waits for its reply and eventually returns,
\* whatever the exporter's exports do and whatever the other producers call.
C23_AcceptedCallsReturn ==
    /\ [][ControlAccepted => CallWaits]_vars
    /\ WaitersReturn

\* C23 (amended): a force_flush or shutdown call whose message was accepted by
\* the channel waits for its reply and eventually returns, whatever the
\* exporter's exports do and whatever the other producers call, unless the
\* call is made inside a futures executor: then block_on panics, the call ends
\* without a result and the lock stays poisoned.
C23_AcceptedCallsReturnOrPanic ==
    /\ [][(ControlAccepted => (CallWaits \/ CallPanics)) /\ PanickedCallEnds]_vars
    /\ WaitersReturn

\* A force_flush is about to return: the export of its drain ran into the
\* timeout and the reply has been sent, while another producer's on_end is
\* blocked behind the call.
C23_Witness ==
    \E p, q \in Producers :
        /\ pc[p] = "flush_wait"
        /\ pc[q] = "on_end_blocked"
        /\ oneshot[p].state = "sent"
        /\ Len(oneshot[p].outcomes) = 1
        /\ oneshot[p].outcomes[1].side = "Right"

\* C24: no span is passed to exporter.export more than once: the spans of all
\* export calls are pairwise different, and a span that has been passed to
\* export is neither in the buffer nor in the channel, whatever the results of
\* the attempts were.
C24_NoSpanExportedTwice ==
    LET exported == Flatten(exportCalls)
    IN /\ \A i, j \in 1..Len(exported) : exported[i] = exported[j] => i = j
       /\ \A i \in 1..Len(exported) :
              /\ \A j \in 1..Len(spans) : spans[j] # exported[i]
              /\ \A q \in QueuedSpans : chan[q].span # exported[i]

\* A drain whose first sub-batch failed or timed out has gone on to its second
\* sub-batch, after an earlier drain had exported a span.
C24_Witness ==
    /\ wpc = "select"
    /\ Len(drain.outcomes) = 1
    /\ (drain.outcomes[1].side = "Right" \/ drain.outcomes[1].res # Ok)
    /\ Len(exportCalls) = 3
    /\ config.max_export_batch_size = 1

\* the worker task panicked in an arm before the arm's drain loop
PanickedBeforeDrain ==
    wpc \in {"unwinding", "panicked"} /\ drain = NoDrain /\ exporterShutdowns = 0

\* C25: every drain terminates, for every size of the configuration: the worker
\* gets into each arm's drain loop (it does not panic before it), and each
\* export attempt of a drain takes at least one span out of the buffer, so
\* that a drain which found n spans is over after at most n attempts.
C25_EveryDrainTerminates ==
    /\ ~PanickedBeforeDrain
    /\ wpc = "select" => Len(spans) + Len(drain.outcomes) + 1 <= drain.entry

\* the worker has left its loop through the Shutdown arm's `break`
WorkerLeft == wpc \in {"exiting", "exited"}

\* the force_flush made in this step returns at once with an error: its send
\* is refused (Disconnected when the receiver has been dropped), or the lock
\* is poisoned
FlushFailsAtOnce ==
    /\ pc' = pc
    /\ last'.op = "force_flush"
    /\ last'.calls = hist'.flushes + hist'.shutdowns
    /\ ~last'.replied
    /\ last'.ret = IF lock_result # Ok THEN "Poisoned"
                   ELSE IF wpc = "exited" THEN "Disconnected" ELSE "Full"

\* the message of the force_flush made in this step is accepted before the
\* receiver is dropped, and the caller waits
FlushWaitsForDrop ==
    /\ wpc = "exiting"
    /\ last' = last
    /\ \E p \in Producers : pc[p] = "idle" /\ pc'[p] = "flush_wait"

\* a force_flush that waited after the worker's exit returns Canceled, once
\* the receiver has been dropped
WaiterIsCanceled ==
    \A p \in Producers :
        (WorkerLeft /\ pc[p] = "flush_wait" /\ pc'[p] = "idle") =>
            /\ wpc = "exited"
            /\ last'.calls = hist.flushes + hist.shutdowns
            /\ last'.op = "force_flush"
            /\ last'.ret = "Canceled"

\* C26 (as stated): once the worker has left its loop through Shutdown, every
\* force_flush call returns an error and does not wait forever: it returns at
\* once with an error (Disconnected when the receiver has been dropped), or
\* its message is accepted before the receiver is dropped, and then the caller
\* returns, after the drop, with Canceled.
C26_ForceFlushAfterWorkerExit ==
    /\ [][/\ (WorkerLeft /\ hist'.flushes = hist.flushes + 1) =>
                (FlushFailsAtOnce \/ FlushWaitsForDrop)
          /\ WaiterIsCanceled]_vars
    /\ (WorkerLeft /\ Waiters # {}) ~> (Waiters = {})

\* C26 (amended): once the worker has left its loop through Shutdown, no
\* force_flush call returns success or waits forever: it returns at once with
\* an error, or its message is accepted before the receiver is dropped, and
\* then the caller returns, after the drop, with Canceled, unless the call is
\* made inside a futures executor: then block_on panics and the call ends
\* without a result, the lock poisoned.
C26_ForceFlushAfterWorkerExitFailsOrPanics ==
    /\ [][/\ (WorkerLeft /\ hist'.flushes = hist.flushes + 1) =>
                \/ FlushFailsAtOnce
                \/ FlushWaitsForDrop
                \/ wpc = "exiting" /\ CallPanics
          /\ WaiterIsCanceled]_vars
    /\ (WorkerLeft /\ Waiters # {}) ~> (Waiters = {})

\* After the worker's exit a force_flush has returned Disconnected, the
\* force_flush before it having returned Canceled.
C26_Witness ==
    /\ wpc = "exited"
    /\ last.op = "force_flush"
    /\ last.ret = "Disconnected"
    /\ last.prev.op = "force_flush"
    /\ last.prev.ret = "Canceled"

====
